---- MODULE Spec2Model ----
(***************************************************************************)
(* Model of bottle-time's code.py: the NTP-to-RTC supervisor (NTPtoRTC),   *)
(* the feed client (MQTTClient), the two countdown trackers                *)
(* (BottleTracker over the MagTag pixels and over the strip) and the main  *)
(* polling loop that drives them.                                          *)
(*                                                                         *)
(* Time is counted in whole seconds: CircuitPython's time.time(), from     *)
(* which adafruit_datetime's datetime.now() is built, has a resolution of  *)
(* one second.  `mono` is the monotonic time since start (the gates of     *)
(* every.Every run on it), the RTC reads mono + rtc_skew.                  *)
(***************************************************************************)
EXTENDS Integers, Sequences, FiniteSets, TLC

\* ------------------------------------------------------------ bounds
\* Tick stops at this monotonic time (seconds since start).
MaxMono == 6
\* The per-call count of NTP attempts stops counting here.
MaxAttempts == 3
\* Seconds by which the RTC can run ahead of network time between two syncs.
MaxSkew == 12

\* ------------------------------------------------- program constants
\* BottleTracker(..., interval = 300), both trackers.
Interval == 300
\* neopixel.NeoPixel(board.D10, 30, ...)
StripPixels == 30
\* magtag.peripherals.neopixels: the MagTag carries four NeoPixels.
MagtagPixels == 4
\* BottleTracker(..., blink_interval=1)
BlinkInterval == 1
\* NTPtoRTC(..., update_duration=3601)
UpdateDuration == 3601
\* NTPtoRTC.reconnect_event = Every(5)
NtpReconnectPeriod == 5
\* MQTTClient.reconnect_event = Every(5)
MqttReconnectPeriod == 5
\* MQTTClient.mqtt_loop = Every(1)
MqttLoopPeriod == 1
\* time.sleep(5) after a failed broker connect
ConnectSleep == 5
\* timedelta.seconds is the seconds part of a (days, seconds) pair.
SecondsPerDay == 86400

\* An optional value: None, or Some(v) holding v.
None == <<>>
Some(v) == <<v>>
Val(x) == x[1]

Off == <<0, 0, 0>>
Red == <<255, 0, 0>>
Orange == <<255, 165, 0>>
Green == <<0, 255, 0>>

Trackers == {"magtag", "strip"}

num_pixels(t) == IF t = "magtag" THEN MagtagPixels ELSE StripPixels

Min(a, b) == IF a < b THEN a ELSE b
Max(a, b) == IF a > b THEN a ELSE b

VARIABLES
    pc,                 \* where the main loop stands
    mono,               \* time.monotonic(), whole seconds
    rtc_skew,           \* RTC reading minus network time
    ntp_connected,      \* NTPtoRTC.connected
    ntp_ret,            \* where NTPtoRTC.connect() returns to
    ntp_attempts,       \* attempts made by the connect() call in progress
    ntp_reconnect_event,\* NTPtoRTC.reconnect_event: last time it fired
    ntp_update_event,   \* NTPtoRTC.update_event: last time it fired
    ntp_last_attempt,   \* when connect() last queried the time source
    ntp_last_refresh,   \* when update() last queried the time source
    mq_reconnect_event, \* MQTTClient.reconnect_event: last time it fired
    mq_loop_event,      \* MQTTClient.mqtt_loop: last time it fired
    mq_is_connected,    \* mqtt_client.is_connected()
    mq_connected_attr,  \* what self.connected evaluates to on the MQTTClient
    mq_on_connect,      \* mqtt_client.on_connect
    mq_subscribed,      \* the session holds a subscription to topic_name
    mq_published,       \* what the client has published in this session
    last_msg,           \* the payload of the last MQTTClient.message() call
    invoked,            \* handlers that call invoked, in order
    last_bottle_time,   \* BottleTracker.last_bottle_time, per tracker
    next_blink_time,    \* BottleTracker.next_blink_time, per tracker
    blink_state,        \* BottleTracker.blink_state, per tracker
    pixels,             \* the pixel buffer, per tracker
    expired,            \* update_lights saw end_time <= now since new_bottle
    rendered            \* update_lights has run at this clock value, and no
                        \* new_bottle since

vars == <<pc, mono, rtc_skew, ntp_connected, ntp_ret, ntp_attempts,
          ntp_reconnect_event, ntp_update_event, ntp_last_attempt,
          ntp_last_refresh, mq_reconnect_event,
          mq_loop_event, mq_is_connected, mq_connected_attr, mq_on_connect,
          mq_subscribed, mq_published, last_msg, invoked, last_bottle_time,
          next_blink_time, blink_state, pixels, expired, rendered>>

ntp_vars == <<ntp_connected, ntp_ret, ntp_attempts, ntp_reconnect_event,
              ntp_update_event, ntp_last_attempt, ntp_last_refresh>>
mq_vars == <<mq_reconnect_event, mq_loop_event, mq_is_connected,
             mq_connected_attr, mq_on_connect, mq_subscribed, mq_published,
             last_msg, invoked>>
countdown_vars == <<last_bottle_time, next_blink_time, blink_state, pixels,
                    expired>>
tracker_vars == <<countdown_vars, rendered>>

\* adt.datetime.now(): the RTC.
now == mono + rtc_skew

\* A step that changes what the RTC reads ends the record of the calls made
\* at the old reading.
ClockStep ==
    rendered' = IF now' = now THEN rendered ELSE [t \in Trackers |-> FALSE]

\* ------------------------------------------------------ interval gate
\* every.Every(period): true on the first call and then once per period.
EveryFires(last, period) ==
    IF last = None THEN TRUE ELSE mono - Val(last) >= period
EveryNext(last, period) == IF EveryFires(last, period) THEN Some(mono) ELSE last

\* ------------------------------------------------------ BottleTracker
\* timedelta.seconds: the seconds part of the normalised (days, seconds).
TimedeltaSeconds(d) == d % SecondsPerDay

end_time(t) == Val(last_bottle_time[t]) + Interval

total_time(t) ==
    IF end_time(t) > Val(last_bottle_time[t])
    THEN TimedeltaSeconds(end_time(t) - Val(last_bottle_time[t]))
    ELSE 0

time_left(t) ==
    IF end_time(t) > now THEN TimedeltaSeconds(end_time(t) - now) ELSE 0

\* proportion_left < 1/k, with proportion_left = time_left / total_time if
\* total_time else 0.  The operands stay far below the precision of the float
\* division, so the comparison is the one between the exact fractions.
ProportionBelow(t, k) ==
    IF total_time(t) = 0 THEN TRUE ELSE k * time_left(t) < total_time(t)

\* int(proportion_left * self.num_pixels)
num_lights_on(t) ==
    IF total_time(t) = 0 THEN 0
    ELSE (time_left(t) * num_pixels(t)) \div total_time(t)

color(t) ==
    IF ProportionBelow(t, 18) THEN Red
    ELSE IF ProportionBelow(t, 6) THEN Orange
    ELSE Green

\* The index without the min and the max.
RightmostUnclamped(t) == num_lights_on(t) - 1

\* rightmost_pixel = min(max(0, num_lights_on - 1), self.num_pixels - 1)
rightmost_pixel(t) == Min(Max(0, num_lights_on(t) - 1), num_pixels(t) - 1)

AllOff(t) == [i \in 0..(num_pixels(t) - 1) |-> Off]

\* for i in range(num_pixels): pixels[i] = color if i < num_lights_on else off
Fill(t) ==
    [i \in 0..(num_pixels(t) - 1) |-> IF i < num_lights_on(t) THEN color(t) ELSE Off]

\* the blink is due: not self.next_blink_time or self.next_blink_time < current_time
BlinkDue(t) ==
    IF next_blink_time[t] = None THEN TRUE ELSE Val(next_blink_time[t]) < now

\* a datetime is always true; None is false
Truthy(x) == x # None

\* new_bottle without the `or`, and without the argument.
NewBottleKeepsArg(ts) == ts
NewBottleIgnoresArg(ts) == Some(now)

\* BottleTracker.new_bottle: last_bottle_time or adt.datetime.now()
new_bottle(ts) == IF Truthy(ts) THEN ts ELSE Some(now)

\* The pixel indices an update_lights() call made now would assign: those of
\* the two `for i in range(self.num_pixels)` loops, and rightmost_pixel when
\* the blink is due.
written(t) ==
    IF last_bottle_time[t] = None THEN {}
    ELSE (0..(num_pixels(t) - 1))
         \cup (IF time_left(t) > 0 /\ num_lights_on(t) > 0 /\ BlinkDue(t)
               THEN {rightmost_pixel(t)} ELSE {})

\* BottleTracker.update_lights on tracker t.  The debug line under
\* log_interval writes no state and is left out; `expired` only records that
\* this call found end_time reached.
update_lights(t) ==
    /\ rendered' = [rendered EXCEPT ![t] = TRUE]
    /\ IF last_bottle_time[t] = None
       THEN UNCHANGED <<pixels, next_blink_time, blink_state, expired>>
       ELSE
         /\ expired' = [expired EXCEPT ![t] = @ \/ end_time(t) <= now]
         /\ IF time_left(t) <= 0
            THEN /\ pixels' = [pixels EXCEPT ![t] = AllOff(t)]
                 /\ UNCHANGED <<next_blink_time, blink_state>>
            ELSE IF num_lights_on(t) > 0 /\ BlinkDue(t)
            THEN /\ next_blink_time' =
                       [next_blink_time EXCEPT ![t] = Some(now + BlinkInterval)]
                 /\ pixels' = [pixels EXCEPT ![t] =
                       [Fill(t) EXCEPT ![rightmost_pixel(t)] =
                           IF blink_state[t] THEN Off ELSE color(t)]]
                 /\ blink_state' = [blink_state EXCEPT ![t] = ~@]
            ELSE /\ pixels' = [pixels EXCEPT ![t] = Fill(t)]
                 /\ UNCHANGED <<next_blink_time, blink_state>>

\* ------------------------------------------------------ feed payloads
\* The event-ts field of a payload: absent, a text that is no timestamp, or
\* the ISO-8601 text of the instant `at`.
MissingTs == [kind |-> "missing", at |-> 0]
BadTs == [kind |-> "bad", at |-> 0]
IsoText(n) == [kind |-> "iso", at |-> n]

\* A payload json.loads cannot decode.
Undecodable == [json |-> FALSE, event |-> "", event_ts |-> MissingTs]
Payload(e, ts) == [json |-> TRUE, event |-> e, event_ts |-> ts]

\* Instants a new-bottle message carries, relative to the RTC: just before the
\* green/orange boundary, just before the expiry, and about a day ahead.
NewBottleOffsets ==
    { -(Interval - 51), -(Interval - 2),
      SecondsPerDay - Interval + 2, SecondsPerDay - Interval + 12 }

Payloads ==
    { Undecodable, Payload("low-battery", IsoText(now - (Interval - 51))) }
    \cup { Payload("new-bottle", ts) :
             ts \in {MissingTs, BadTs} \cup { IsoText(now + o) : o \in NewBottleOffsets } }

\* datetime.fromisoformat: the instant; None stands for the exception it raises
fromisoformat(ts) == IF ts.kind = "iso" THEN Some(ts.at) ELSE None

\* BottleTracker.new_bottle_discriminator: "True", "False" or "raise"
new_bottle_discriminator(m) ==
    IF ~m.json THEN "raise"
    ELSE IF m.event = "new-bottle" THEN "True" ELSE "False"

\* The registration of the first tracker alone.
HandlersMagtagOnly ==
    << [handler |-> "magtag", discriminator |-> "new_bottle_discriminator"] >>

\* mqtt_client.add_handler(...), in registration order
handlers ==
    << [handler |-> "magtag", discriminator |-> "new_bottle_discriminator"],
       [handler |-> "strip", discriminator |-> "new_bottle_discriminator"] >>

discriminate(d, m) ==
    IF d = "None" THEN "True" ELSE new_bottle_discriminator(m)

\* The handler with a fromisoformat that returns None where it should raise.
NewBottleHandlerNeverRaises(t, m, st) ==
    IF ~m.json
    THEN [st EXCEPT !.invoked = Append(@, t), !.raised = TRUE]
    ELSE [st EXCEPT !.invoked = Append(@, t),
                    !.lbt = [@ EXCEPT ![t] = new_bottle(fromisoformat(m.event_ts))],
                    !.started = @ \cup {t}]

\* BottleTracker.new_bottle_handler of tracker t on payload m, from the
\* dispatch state st; st.raised is set when it raises.
new_bottle_handler(t, m, st) ==
    IF ~m.json \/ fromisoformat(m.event_ts) = None
    THEN [st EXCEPT !.invoked = Append(@, t), !.raised = TRUE]
    ELSE [st EXCEPT !.invoked = Append(@, t),
                    !.lbt = [@ EXCEPT ![t] = new_bottle(fromisoformat(m.event_ts))],
                    !.started = @ \cup {t}]

\* MQTTClient.message: the handlers from the i-th on; an exception ends the loop.
RECURSIVE message(_, _, _)
message(i, m, st) ==
    IF i > Len(handlers) \/ st.raised THEN st
    ELSE LET d == discriminate(handlers[i].discriminator, m)
         IN IF d = "raise" THEN [st EXCEPT !.raised = TRUE]
            ELSE IF d = "True"
            THEN message(i + 1, m, new_bottle_handler(handlers[i].handler, m, st))
            ELSE message(i + 1, m, st)


\* ------------------------------------------------------------ Init
InitProgram ==
    /\ pc = "ntp_loop"
    /\ mono = 0
    /\ rtc_skew = 0
    /\ ntp_connected = FALSE
    /\ ntp_ret = "ntp_update_event"
    /\ ntp_attempts = 0
    /\ ntp_reconnect_event = None
    /\ ntp_update_event = None
    /\ ntp_last_attempt = None
    /\ ntp_last_refresh = None
    /\ mq_reconnect_event = None
    /\ mq_loop_event = None
    /\ mq_is_connected = FALSE
    /\ mq_connected_attr = "method"
    /\ mq_on_connect = "None"
    /\ mq_subscribed = FALSE
    /\ mq_published = <<>>
    /\ last_msg = None
    /\ invoked = <<>>
    /\ last_bottle_time = [t \in Trackers |-> None]
    /\ next_blink_time = [t \in Trackers |-> None]
    /\ blink_state = [t \in Trackers |-> FALSE]
    /\ expired = [t \in Trackers |-> FALSE]
    /\ rendered = [t \in Trackers |-> FALSE]

\* neopixel.NeoPixel(...) and the MagTag's pixels start with every pixel off.
Init ==
    /\ InitProgram
    /\ pixels = [t \in Trackers |-> AllOff(t)]

\* BottleTracker.__init__ keeps the buffer it is handed and writes nothing to
\* it: the tracker over a buffer whose first pixel may already be lit.
HandedBuffers(t) == { AllOff(t), [AllOff(t) EXCEPT ![0] = Green] }

InitAnyBuffer ==
    /\ InitProgram
    /\ pixels \in [Trackers -> UNION { HandedBuffers(t) : t \in Trackers }]
    /\ \A t \in Trackers : pixels[t] \in HandedBuffers(t)

\* ------------------------------------------------------ environment
\* Between two iterations of the main loop a second passes ...
Tick ==
    /\ pc = "elapse"
    /\ mono < MaxMono
    /\ mono' = mono + 1
    /\ pc' = "ntp_loop"
    /\ UNCHANGED <<rtc_skew, ntp_vars, mq_vars, countdown_vars>>
    /\ ClockStep

\* ... or less than a second.
NoTick ==
    /\ pc = "elapse"
    /\ pc' = "ntp_loop"
    /\ UNCHANGED <<mono, rtc_skew, ntp_vars, mq_vars, tracker_vars>>

\* ... or the loop is held up for as long as the refresh period: the program
\* puts no bound on how long a call into the network stack blocks.  The
\* hold-up is followed from the first second only; after it the iterations
\* go on without Tick.
LongGap ==
    /\ pc = "elapse"
    /\ mono = 0
    /\ mono' = mono + UpdateDuration
    /\ pc' = "ntp_loop"
    /\ UNCHANGED <<rtc_skew, ntp_vars, mq_vars, countdown_vars>>
    /\ ClockStep

\* The RTC has run ahead of network time since it was last set.
Drift ==
    /\ pc = "elapse"
    /\ rtc_skew = 0
    /\ rtc_skew' = MaxSkew
    /\ pc' = "ntp_loop"
    /\ UNCHANGED <<mono, ntp_vars, mq_vars, countdown_vars>>
    /\ ClockStep

\* ------------------------------------------------------------ NTPtoRTC
\* rtc.RTC().datetime = self.ntp.datetime
SetRtc == rtc_skew' = 0

\* NTPtoRTC.loop: if self.reconnect_event(): self.connect().  A new
\* iteration starts here: last_msg and invoked record this iteration's dispatch.
NtpLoop ==
    /\ pc = "ntp_loop"
    /\ ntp_reconnect_event' = EveryNext(ntp_reconnect_event, NtpReconnectPeriod)
    /\ IF EveryFires(ntp_reconnect_event, NtpReconnectPeriod)
       THEN /\ pc' = "ntp_connect"
            /\ ntp_ret' = "ntp_update_event"
            /\ ntp_attempts' = 0
       ELSE /\ pc' = "ntp_update_event"
            /\ UNCHANGED <<ntp_ret, ntp_attempts>>
    /\ last_msg' = None
    /\ invoked' = <<>>
    /\ UNCHANGED <<mono, rtc_skew, ntp_connected, ntp_update_event,
                   ntp_last_attempt, ntp_last_refresh,
                   mq_reconnect_event, mq_loop_event, mq_is_connected,
                   mq_connected_attr, mq_on_connect, mq_subscribed,
                   mq_published, tracker_vars>>

\* NTPtoRTC.connect: while not self.connected; ntp_attempts counts the
\* attempts of the call in progress and is cleared when the call returns.
NtpConnectWhile ==
    /\ pc = "ntp_connect"
    /\ IF ntp_connected
       THEN pc' = ntp_ret /\ ntp_attempts' = 0
       ELSE pc' = "ntp_connect_try" /\ UNCHANGED ntp_attempts
    /\ UNCHANGED <<mono, rtc_skew, ntp_connected, ntp_ret, ntp_reconnect_event,
                   ntp_update_event, ntp_last_attempt, ntp_last_refresh,
                   mq_vars, tracker_vars>>

\* NTPtoRTC.connect: the try block; the time query succeeds or raises
NtpConnectTry ==
    /\ pc = "ntp_connect_try"
    /\ pc' = "ntp_connect"
    /\ ntp_attempts' = Min(ntp_attempts + 1, MaxAttempts)
    /\ ntp_last_attempt' = Some(mono)
    /\ \E ok \in BOOLEAN :
         IF ok THEN SetRtc /\ ntp_connected' = TRUE
         ELSE UNCHANGED <<rtc_skew, ntp_connected>>
    /\ UNCHANGED <<mono, ntp_ret, ntp_reconnect_event, ntp_update_event,
                   ntp_last_refresh, mq_vars, countdown_vars>>
    /\ ClockStep

\* NTPtoRTC.loop: if self.update_event(): self.update()
NtpUpdateEvent ==
    /\ pc = "ntp_update_event"
    /\ ntp_update_event' = EveryNext(ntp_update_event, UpdateDuration)
    /\ pc' = IF EveryFires(ntp_update_event, UpdateDuration)
             THEN "ntp_update" ELSE "mqtt_loop"
    /\ UNCHANGED <<mono, rtc_skew, ntp_connected, ntp_ret, ntp_attempts,
                   ntp_reconnect_event, ntp_last_attempt, ntp_last_refresh,
                   mq_vars, tracker_vars>>

\* NTPtoRTC.update: if not self.connected: self.connect()
NtpUpdate ==
    /\ pc = "ntp_update"
    /\ IF ntp_connected
       THEN /\ pc' = "ntp_update_try"
            /\ UNCHANGED <<ntp_ret, ntp_attempts>>
       ELSE /\ pc' = "ntp_connect"
            /\ ntp_ret' = "ntp_update_try"
            /\ ntp_attempts' = 0
    /\ UNCHANGED <<mono, rtc_skew, ntp_connected, ntp_reconnect_event,
                   ntp_update_event, ntp_last_attempt, ntp_last_refresh,
                   mq_vars, tracker_vars>>

\* NTPtoRTC.update: the try block; the time query sets the RTC, or raises
\* before anything is written
NtpUpdateTry ==
    /\ pc = "ntp_update_try"
    /\ ntp_last_refresh' = Some(mono)
    /\ \E ok \in BOOLEAN :
         IF ok THEN SetRtc /\ pc' = "mqtt_loop"
         ELSE UNCHANGED rtc_skew /\ pc' = "ntp_update_except"
    /\ UNCHANGED <<mono, ntp_connected, ntp_ret, ntp_attempts,
                   ntp_reconnect_event, ntp_update_event, ntp_last_attempt,
                   mq_vars, countdown_vars>>
    /\ ClockStep

\* The except block that only logs.
NtpUpdateExceptKeepsConnected ==
    /\ pc = "ntp_update_except"
    /\ pc' = "mqtt_loop"
    /\ UNCHANGED <<mono, rtc_skew, ntp_vars, mq_vars, tracker_vars>>

\* NTPtoRTC.update: except Exception: logger.exception(exp); connected = False
NtpUpdateExcept ==
    /\ pc = "ntp_update_except"
    /\ pc' = "mqtt_loop"
    /\ ntp_connected' = FALSE
    /\ UNCHANGED <<mono, rtc_skew, ntp_ret, ntp_attempts, ntp_reconnect_event,
                   ntp_update_event, ntp_last_attempt, ntp_last_refresh,
                   mq_vars, tracker_vars>>

\* ---------------------------------------------------------- MQTTClient
\* MQTTClient.topic_name, the feed the client is built for
topic_name == "feed"

\* MQTTClient.get: publish(f"{self.topic_name}/get", "\0"), the payload as
\* its bytes
get == [topic |-> <<topic_name, "/get">>, payload |-> <<0>>]

\* The callback that only logs.
SubscribedOnlyLogs(published) == published

\* MQTTClient.subscribed, called on the acknowledgement: self.get()
subscribed(published) == Append(published, get)

\* What calling mqtt_client.on_connect does once the session is up:
\* MQTTClient.connected subscribes, the acknowledgement runs
\* MQTTClient.subscribed, which publishes the retained-value request;
\* calling anything else raises.
OnConnectRuns(cb) == cb = "method"

\* MQTTClient.connect: on_connect = self.connected, then mqtt_client.connect()
\* unless the session is up; whatever it raises is printed, then time.sleep(5)
MqttConnect ==
    /\ mq_on_connect' = mq_connected_attr
    /\ IF mq_is_connected
       THEN UNCHANGED <<mono, mq_is_connected, mq_subscribed, mq_published>>
       ELSE \/ \* the broker cannot be reached: print(exp); time.sleep(5)
               /\ mono + ConnectSleep <= MaxMono
               /\ mono' = mono + ConnectSleep
               /\ UNCHANGED <<mq_is_connected, mq_subscribed, mq_published>>
            \/ \* the session is established and on_connect is called
               /\ mq_is_connected' = TRUE
               /\ IF OnConnectRuns(mq_connected_attr)
                  THEN /\ mq_subscribed' = TRUE
                       /\ mq_published' = subscribed(<<>>)
                       /\ UNCHANGED mono
                  ELSE /\ mq_subscribed' = FALSE
                       /\ mq_published' = <<>>
                       /\ mono' = mono + ConnectSleep

\* MQTTClient.loop: if self.reconnect_event(): self.connect()
MqttLoop ==
    /\ pc = "mqtt_loop"
    /\ pc' = "mqtt_pump"
    /\ mq_reconnect_event' = EveryNext(mq_reconnect_event, MqttReconnectPeriod)
    /\ IF EveryFires(mq_reconnect_event, MqttReconnectPeriod)
       THEN MqttConnect
       ELSE UNCHANGED <<mono, mq_on_connect, mq_is_connected, mq_subscribed,
                        mq_published>>
    /\ UNCHANGED <<rtc_skew, ntp_vars, mq_loop_event, mq_connected_attr,
                   last_msg, invoked, countdown_vars>>
    /\ ClockStep

\* MQTTClient.loop: if self.mqtt_loop(): mqtt_client.loop() brings nothing,
\* or raises (caught and logged)
MqttPumpIdle ==
    /\ pc = "mqtt_pump"
    /\ pc' = "button"
    /\ mq_loop_event' = EveryNext(mq_loop_event, MqttLoopPeriod)
    /\ UNCHANGED <<mono, rtc_skew, ntp_vars, mq_reconnect_event,
                   mq_is_connected, mq_connected_attr, mq_on_connect,
                   mq_subscribed, mq_published, last_msg, invoked, tracker_vars>>

\* mqtt_client.loop() delivers a payload of the subscribed feed to
\* MQTTClient.message; what a handler raises is caught in MQTTClient.loop
MqttPumpMessage ==
    /\ pc = "mqtt_pump"
    /\ EveryFires(mq_loop_event, MqttLoopPeriod)
    /\ mq_is_connected /\ mq_subscribed
    /\ pc' = "button"
    /\ mq_loop_event' = EveryNext(mq_loop_event, MqttLoopPeriod)
    /\ \E m \in Payloads :
         LET st == message(1, m, [lbt |-> last_bottle_time, invoked |-> <<>>,
                                  started |-> {}, raised |-> FALSE])
         IN /\ last_msg' = Some(m)
            /\ invoked' = st.invoked
            /\ last_bottle_time' = st.lbt
            /\ expired' = [t \in Trackers |->
                              IF t \in st.started THEN FALSE ELSE expired[t]]
            /\ rendered' = [t \in Trackers |->
                              IF t \in st.started THEN FALSE ELSE rendered[t]]
    /\ UNCHANGED <<mono, rtc_skew, ntp_vars, mq_reconnect_event,
                   mq_is_connected, mq_connected_attr, mq_on_connect,
                   mq_subscribed, mq_published, next_blink_time, blink_state,
                   pixels>>

\* mqtt_client.loop() finds the session gone and calls on_disconnect:
\* MQTTClient.disconnected sets self.connected = False, an instance attribute
\* that from now on hides the method MQTTClient.connected
MqttPumpDisconnected ==
    /\ pc = "mqtt_pump"
    /\ EveryFires(mq_loop_event, MqttLoopPeriod)
    /\ mq_is_connected
    /\ mono < MaxMono
    /\ pc' = "button"
    /\ mq_loop_event' = EveryNext(mq_loop_event, MqttLoopPeriod)
    /\ mq_is_connected' = FALSE
    /\ mq_subscribed' = FALSE
    /\ mq_connected_attr' = "False"
    /\ UNCHANGED <<mono, rtc_skew, ntp_vars, mq_reconnect_event,
                   mq_on_connect, mq_published, last_msg, invoked,
                   tracker_vars>>

\* ----------------------------------------------------------- main loop
\* if magtag.peripherals.any_button_pressed: new_bottle() on both trackers
Button ==
    /\ pc = "button"
    /\ pc' = "update_magtag"
    /\ \E pressed \in BOOLEAN :
         IF pressed
         THEN /\ last_bottle_time' = [t \in Trackers |-> new_bottle(None)]
              /\ expired' = [t \in Trackers |-> FALSE]
              /\ rendered' = [t \in Trackers |-> FALSE]
         ELSE UNCHANGED <<last_bottle_time, expired, rendered>>
    /\ UNCHANGED <<mono, rtc_skew, ntp_vars, mq_vars, next_blink_time,
                   blink_state, pixels>>

\* bottle_tracker_magtag.update_lights()
UpdateMagtag ==
    /\ pc = "update_magtag"
    /\ pc' = "update_strip"
    /\ update_lights("magtag")
    /\ UNCHANGED <<mono, rtc_skew, ntp_vars, mq_vars, last_bottle_time>>

\* bottle_tracker_strip.update_lights()
UpdateStrip ==
    /\ pc = "update_strip"
    /\ pc' = "elapse"
    /\ update_lights("strip")
    /\ UNCHANGED <<mono, rtc_skew, ntp_vars, mq_vars, last_bottle_time>>

Next ==
    \/ Tick
    \/ NoTick
    \/ LongGap
    \/ Drift
    \/ NtpLoop
    \/ NtpConnectWhile
    \/ NtpConnectTry
    \/ NtpUpdateEvent
    \/ NtpUpdate
    \/ NtpUpdateTry
    \/ NtpUpdateExcept
    \/ MqttLoop
    \/ MqttPumpIdle
    \/ MqttPumpMessage
    \/ MqttPumpDisconnected
    \/ Button
    \/ UpdateMagtag
    \/ UpdateStrip

Spec == Init /\ [][Next]_vars

\* The interpreter keeps running the program: a step that can be taken is taken.
FairSpec == Spec /\ WF_vars(Next)

\* The trackers built over buffers that need not be dark.
SpecAnyBuffer == InitAnyBuffer /\ [][Next]_vars


\* ============================================================ claims
Range(f) == { f[i] : i \in DOMAIN f }

\* update_lights() of tracker t has just returned, nothing has run since.
JustRendered(t) == pc = (IF t = "magtag" THEN "update_strip" ELSE "elapse")

\* The step is the update_lights() call of tracker t.
RenderStep(t) ==
    IF t = "magtag"
    THEN pc = "update_magtag" /\ pc' = "update_strip"
    ELSE pc = "update_strip" /\ pc' = "elapse"

\* The step is a call of MQTTClient.message().
DispatchStep == last_msg = None /\ last_msg' # None

\* C1: whatever the time source does, an iteration that enters
\* NTPtoRTC.loop() goes on to the update_lights() calls.
C1_LoopReachesLights == (pc = "ntp_loop") ~> (pc = "update_strip")

\* C2: one call of NTPtoRTC.connect() makes at most one attempt to reach the
\* time source.
C2_OneAttemptPerConnect == ntp_attempts <= 1

\* C3: every time the broker session comes up, the on-connect callback
\* subscribes to the topic.
C3_EverySessionSubscribes ==
    [][(~mq_is_connected /\ mq_is_connected') => mq_subscribed']_vars

\* C4: a feed message that is not a new-bottle event leaves every
\* last_bottle_time as it was; a new-bottle event with a valid event-ts sets
\* the last_bottle_time of every registered tracker to that timestamp.
C4_FeedSetsExactTimestamp ==
    [][DispatchStep =>
        LET m == Val(last_msg')
        IN IF m.json /\ m.event = "new-bottle"
           THEN m.event_ts.kind = "iso" =>
                  \A i \in 1..Len(handlers) :
                     last_bottle_time'[handlers[i].handler] = Some(m.event_ts.at)
           ELSE last_bottle_time' = last_bottle_time]_vars

C4_Witness ==
    /\ last_msg # None
    /\ Val(last_msg).json
    /\ Val(last_msg).event = "new-bottle"
    /\ Val(last_msg).event_ts.kind = "iso"
    /\ Val(last_msg).event_ts.at # now
    /\ \A t \in Trackers : last_bottle_time[t] = Some(Val(last_msg).event_ts.at)

\* C5: a dispatched payload reaches a handler exactly when the handler's
\* discriminator is absent or true of the payload.
C5_HandlerIffDiscriminator ==
    last_msg # None =>
        \A i \in 1..Len(handlers) :
            (handlers[i].handler \in Range(invoked))
            <=> (discriminate(handlers[i].discriminator, Val(last_msg)) = "True")

\* C6: after update_lights() with last_bottle_time None every pixel is off.
C6_NoCountdownAllOff ==
    \A t \in Trackers :
        (JustRendered(t) /\ last_bottle_time[t] = None) => pixels[t] = AllOff(t)

\* The buffer shows the current count and colour with the rightmost lit pixel off.
OffPhase(t) == [Fill(t) EXCEPT ![rightmost_pixel(t)] = Off]

\* C7: an update_lights() call before the blink deadline leaves the rightmost
\* lit pixel in the phase it shows, off or lit.
C7_BlinkPhaseHeld ==
    [][\A t \in Trackers :
        ( /\ RenderStep(t)
          /\ last_bottle_time[t] # None
          /\ time_left(t) > 0
          /\ num_lights_on(t) > 0
          /\ ~BlinkDue(t)
          /\ pixels[t] \in {Fill(t), OffPhase(t)} )
        => pixels'[t] = pixels[t]]_vars

\* C8: once update_lights() has seen the countdown run out, the pixels are
\* off and stay off until new_bottle().
C8_ExpiredStaysOff ==
    \A t \in Trackers : expired[t] => pixels[t] = AllOff(t)

\* end_time - now, in seconds
Remaining(t) == end_time(t) - now

\* The colour of the proportion Remaining / Interval.
Bucket(t) ==
    IF 18 * Remaining(t) < Interval THEN Red
    ELSE IF 6 * Remaining(t) < Interval THEN Orange
    ELSE Green

\* C9: with time remaining, every lit pixel holds the colour of the
\* proportion remaining / interval.
C9_ColourOfProportion ==
    \A t \in Trackers :
        (JustRendered(t) /\ last_bottle_time[t] # None /\ Remaining(t) > 0) =>
            \A i \in 0..(num_pixels(t) - 1) :
                pixels[t][i] # Off => pixels[t][i] = Bucket(t)

\* The number of lit pixels update_lights() computes at the present clock.
LitCount(t) == IF time_left(t) <= 0 THEN 0 ELSE num_lights_on(t)

\* C10: with last_bottle_time fixed, the lit count does not grow when the
\* clock advances by a second toward end_time.
C10_LitCountNeverGrows ==
    [][\A t \in Trackers :
        ( /\ last_bottle_time[t] # None
          /\ last_bottle_time'[t] = last_bottle_time[t]
          /\ now' = now + 1
          /\ now' <= end_time(t) )
        => LitCount(t)' <= LitCount(t)]_vars

\* floor(proportion * pixel_count) for the proportion Remaining / Interval.
lit_count(t) == (Remaining(t) * num_pixels(t)) \div Interval

\* C11: after update_lights() with time remaining, every pixel from lit_count
\* on is off, and every pixel below lit_count other than the blinking one at
\* lit_count - 1 holds the colour of the proportion.
C11_LitPrefixColoured ==
    \A t \in Trackers :
        (JustRendered(t) /\ last_bottle_time[t] # None /\ Remaining(t) > 0) =>
            \A i \in 0..(num_pixels(t) - 1) :
                /\ i >= lit_count(t) => pixels[t][i] = Off
                /\ (i < lit_count(t) /\ i # lit_count(t) - 1)
                       => pixels[t][i] = Bucket(t)

\* The step is one attempt of NTPtoRTC.connect() to reach the time source.
AttemptStep == pc = "ntp_connect_try" /\ pc' = "ntp_connect"

\* The step is the time query of NTPtoRTC.update().
RefreshStep == pc = "ntp_update_try" /\ pc' # "ntp_update_try"

\* C12: two attempts to connect to the time source are at least the
\* reconnect period apart, and two clock refreshes by update() at least the
\* refresh period, however often NTPtoRTC.loop() is called.
C12_SyncWithinCadence ==
    [][ /\ AttemptStep =>
            IF ntp_last_attempt = None THEN TRUE
            ELSE mono - Val(ntp_last_attempt) >= NtpReconnectPeriod
        /\ RefreshStep =>
            IF ntp_last_refresh = None THEN TRUE
            ELSE mono - Val(ntp_last_refresh) >= UpdateDuration ]_vars

\* C13: when the time query of NTPtoRTC.update() raises, update() returns,
\* connected is false afterwards and the RTC reads what it read before the
\* call: update() goes straight to its query, the failing query writes
\* nothing, and the except block then clears connected.
C13_FailedUpdateKeepsClock ==
    [][ /\ pc = "ntp_update" => (pc' = "ntp_update_try" /\ now' = now)
        /\ (RefreshStep /\ pc' = "ntp_update_except") => now' = now
        /\ pc = "ntp_update_except" =>
              /\ pc' = "mqtt_loop"
              /\ ~ntp_connected'
              /\ now' = now ]_vars

\* update() has just returned from a failed query, made while the RTC was
\* ahead of network time.
C13_Witness ==
    /\ pc = "mqtt_loop"
    /\ ntp_last_refresh = Some(mono)
    /\ ~ntp_connected
    /\ rtc_skew = MaxSkew

\* C14: last_bottle_time changes only in new_bottle(): at the button, to the
\* present clock time; in the dispatch of a message, to the message's
\* timestamp.  update_lights(), the time-sync supervisor and the feed
\* client's connect, reconnect and pump steps leave it as it is.
C14_OnlyNewBottleSets ==
    [][\A t \in Trackers :
        last_bottle_time'[t] # last_bottle_time[t] =>
            \/ pc = "button" /\ last_bottle_time'[t] = Some(now)
            \/ /\ DispatchStep
               /\ Val(last_msg').event_ts.kind = "iso"
               /\ last_bottle_time'[t] = Some(Val(last_msg').event_ts.at)]_vars

\* The button has just started both countdowns at the present clock time.
C14_Witness ==
    /\ pc = "update_magtag"
    /\ last_msg = None
    /\ expired = [t \in Trackers |-> FALSE]
    /\ now > MaxSkew
    /\ \A t \in Trackers : last_bottle_time[t] = Some(now)

\* The step in which the broker acknowledges the subscription.
AckStep == ~mq_subscribed /\ mq_subscribed'

\* C15: the acknowledgement of a subscription is followed by exactly one
\* publish, of the one byte 0 to <topic_name>/get, and nothing is published
\* in a step that is not an acknowledgement.
C15_GetOncePerAck ==
    [][ /\ AckStep =>
              mq_published' =
                  << [topic |-> <<topic_name, "/get">>, payload |-> <<0>>] >>
        /\ Len(mq_published') > Len(mq_published) => AckStep ]_vars

\* The session is up, subscribed, and has published its one request.
C15_Witness ==
    /\ mq_is_connected
    /\ mq_subscribed
    /\ Len(mq_published) = 1
    /\ pc = "mqtt_pump"

\* C16: an update_lights() call that follows another one at the same clock
\* value, with no new_bottle() in between, leaves the pixel buffer as the
\* first call left it.
C16_SecondCallSameBuffer ==
    [][\A t \in Trackers :
        (RenderStep(t) /\ rendered[t]) => pixels'[t] = pixels[t]]_vars

\* C17: the proportion update_lights() uses, time_left / total_time, is the
\* remaining seconds divided by the configured interval.
C17_ProportionOfInterval ==
    \A t \in Trackers :
        (JustRendered(t) /\ last_bottle_time[t] # None /\ Remaining(t) > 0) =>
            /\ total_time(t) = Interval
            /\ time_left(t) * Interval = Remaining(t) * total_time(t)

\* A payload that cannot be processed: it does not decode, or it is a
\* new-bottle event whose event-ts is missing or no timestamp.
Unprocessable(m) ==
    \/ ~m.json
    \/ m.event = "new-bottle" /\ m.event_ts.kind # "iso"

\* The iteration has dispatched a payload that cannot be processed.
DispatchedUnprocessable ==
    IF last_msg = None THEN FALSE ELSE Unprocessable(Val(last_msg))

\* C18: the dispatch of a payload that cannot be processed returns to the
\* main loop with every last_bottle_time as it was, and the iteration goes on
\* through both update_lights() calls.
C18_BadMessageNotFatal ==
    /\ [][(DispatchStep /\ DispatchedUnprocessable') =>
            (pc' = "button" /\ last_bottle_time' = last_bottle_time)]_vars
    /\ (pc = "button" /\ DispatchedUnprocessable)
          ~> (pc = "elapse" /\ DispatchedUnprocessable)

\* Both update_lights() calls have run in an iteration that dispatched such a
\* payload while a countdown was set.
C18_Witness ==
    /\ pc = "elapse"
    /\ DispatchedUnprocessable
    /\ rendered = [t \in Trackers |-> TRUE]
    /\ \A t \in Trackers : last_bottle_time[t] # None

\* C19: the dispatch of a message leaves the two trackers with the same
\* last_bottle_time when they held the same before: it sets both to the
\* message's timestamp, or changes neither.
C19_TrackersStayTogether ==
    [][(DispatchStep /\ last_bottle_time["magtag"] = last_bottle_time["strip"]) =>
          /\ last_bottle_time'["magtag"] = last_bottle_time'["strip"]
          /\ \/ last_bottle_time' = last_bottle_time
             \/ /\ Val(last_msg').event_ts.kind = "iso"
                /\ \A t \in Trackers :
                     last_bottle_time'[t] = Some(Val(last_msg').event_ts.at)]_vars

\* A message has set both trackers, which had a countdown running, to its
\* timestamp.
C19_Witness ==
    /\ pc = "button"
    /\ invoked = <<"magtag", "strip">>
    /\ next_blink_time["magtag"] # None
    /\ last_bottle_time["magtag"] = Some(Val(last_msg).event_ts.at)
    /\ last_bottle_time["strip"] = last_bottle_time["magtag"]

\* C20: whatever last_bottle_time and clock the program has reached,
\* update_lights() assigns only pixel indices of the buffer, the blink index
\* included, and the buffer keeps its length.
C20_WritesInsideBuffer ==
    \A t \in Trackers :
        /\ written(t) \subseteq 0..(num_pixels(t) - 1)
        /\ DOMAIN pixels[t] = 0..(num_pixels(t) - 1)

\* update_lights() has just blinked with a last_bottle_time later than the
\* clock and a computed lit count above the number of pixels.
C20_Witness ==
    \E t \in Trackers :
        /\ JustRendered(t)
        /\ last_bottle_time[t] # None
        /\ Val(last_bottle_time[t]) > now
        /\ num_lights_on(t) > num_pixels(t)
        /\ next_blink_time[t] = Some(now + BlinkInterval)

====
